---- MODULE Spec2Model ----
(***************************************************************************)
(* big_blocker: the CIDR prefix codec (V4Prefix / V6Prefix FromStr and     *)
(* Display), the provider documents (AWSRange / GoogleRange) with the      *)
(* Range trait, and Blocker::block.                                        *)
(*                                                                         *)
(* Text is a sequence of one-character strings, so that parsing and        *)
(* formatting are computed character by character as the code does.        *)
(***************************************************************************)
EXTENDS Integers, Sequences, FiniteSets, TLC

VARIABLES
    family,     \* codec: which FromStr impl is exercised, "v4" or "v6"
    input,      \* codec: the text handed to from_str
    parsed,     \* codec: result of from_str(input)
    text,       \* codec: format!("{}", value) of the parsed value
    reparsed,   \* codec: result of from_str(text)
    cpc,        \* codec: position in the parse / format / parse pipeline
    provider,   \* range: "aws" or "google"
    prefixes,   \* range: the document's raw entries (self.prefixes)
    counts,     \* range: values returned by the prefix_count() calls so far
    it,         \* range: number of entries the into_iter() loop has taken
    outvec,     \* range: the local outvec of prefixes()
    resolved,   \* range: indices of the entries try_to_prefix was called on
    ret,        \* range: what prefixes() returned to its caller
    rpc,        \* range: "start", "loop", "done"
    target_os,  \* blocker: the cfg!(target_os) the crate was built for
    ips,        \* blocker: self.ips
    bi,         \* blocker: number of prefixes the block() loop has taken
    issued,     \* blocker: commands spawned so far, in order
    status,     \* blocker: how the last spawned command completed
    rules,      \* blocker: firewall rules the successful commands added
    bret,       \* blocker: what block() returned
    bpc         \* blocker: "loop", "await", "done", "panicked"

codecVars == <<family, input, parsed, text, reparsed, cpc>>
rangeVars == <<provider, prefixes, counts, it, outvec, resolved, ret, rpc>>
blockVars == <<target_os, ips, bi, issued, status, rules, bret, bpc>>
vars == <<family, input, parsed, text, reparsed, cpc,
          provider, prefixes, counts, it, outvec, resolved, ret, rpc,
          target_os, ips, bi, issued, status, rules, bret, bpc>>

None == "None"

-----------------------------------------------------------------------------
(* Characters and numbers                                                   *)

Digits == <<"0", "1", "2", "3", "4", "5", "6", "7", "8", "9",
            "a", "b", "c", "d", "e", "f">>
UpperDigits == <<"0", "1", "2", "3", "4", "5", "6", "7", "8", "9",
                 "A", "B", "C", "D", "E", "F">>

\* char::to_digit(radix): the digit's value, or -1 when c is no digit
ToDigit(c, radix) ==
    IF \E i \in 1..radix : Digits[i] = c
    THEN (CHOOSE i \in 1..radix : Digits[i] = c) - 1
    ELSE IF \E i \in 1..radix : UpperDigits[i] = c
    THEN (CHOOSE i \in 1..radix : UpperDigits[i] = c) - 1
    ELSE -1

U8Range == 256
U16Range == 65536

RECURSIVE FmtRadix(_, _)
\* "{}" (radix 10) and "{:x}" (radix 16) of an unsigned integer
FmtRadix(n, radix) ==
    IF n < radix THEN <<Digits[n + 1]>>
    ELSE FmtRadix(n \div radix, radix) \o <<Digits[(n % radix) + 1]>>

RECURSIVE SplitFrom(_, _, _)
SplitFrom(s, pos, cur) ==
    IF pos > Len(s) THEN <<cur>>
    ELSE IF s[pos] = "/" THEN <<cur>> \o SplitFrom(s, pos + 1, <<>>)
    ELSE SplitFrom(s, pos + 1, Append(cur, s[pos]))

\* s.split('/').collect(): always at least one part
Split(s) == SplitFrom(s, 1, <<>>)

\* Vec::get(i) with a 0-based index; the Option is <<x>> for Some(x) and
\* <<>> for None
Get(parts, i) == IF i + 1 <= Len(parts) THEN <<parts[i + 1]>> ELSE <<>>

-----------------------------------------------------------------------------
(* std::net address parsing and formatting, as called by the codec          *)

Fail == [ok |-> FALSE, val |-> <<>>, pos |-> 0]

RECURSIVE ReadNumberLoop(_, _, _, _, _, _, _)
RECURSIVE ReadNumberAcc(_, _, _, _, _, _, _)
\* the body of the while loop of Parser::read_number: r is the result after
\* checked_mul and checked_add in the target width (None on overflow); more
\* than maxDigits digits are refused
ReadNumberAcc(s, pos, radix, maxDigits, range, count, r) ==
    IF r >= range THEN Fail
    ELSE IF count + 1 > maxDigits THEN Fail
    ELSE ReadNumberLoop(s, pos + 1, radix, maxDigits, range, r, count + 1)

\* the while loop of Parser::read_number: read digits while there are any
ReadNumberLoop(s, pos, radix, maxDigits, range, result, count) ==
    IF pos <= Len(s) /\ ToDigit(s[pos], radix) >= 0
    THEN ReadNumberAcc(s, pos, radix, maxDigits, range, count,
                       result * radix + ToDigit(s[pos], radix))
    ELSE [ok |-> TRUE, val |-> result, pos |-> pos]

\* the end of Parser::read_number: no digit, or a leading zero that is not
\* allowed, is None
ReadNumberEnd(pos, allowZeroPrefix, hasLeadingZero, r) ==
    IF ~r.ok THEN Fail
    ELSE IF r.pos = pos THEN Fail
    ELSE IF ~allowZeroPrefix /\ hasLeadingZero /\ r.pos - pos > 1 THEN Fail
    ELSE r

\* Parser::read_number(radix, Some(maxDigits), allowZeroPrefix)
ReadNumber(s, pos, radix, maxDigits, allowZeroPrefix, range) ==
    ReadNumberEnd(pos, allowZeroPrefix, pos <= Len(s) /\ s[pos] = "0",
                  ReadNumberLoop(s, pos, radix, maxDigits, range, 0, 0))

\* Parser::read_separator: the separator is read before every group but the
\* first; 0 when it is missing
SkipSep(s, pos, sep, index) ==
    IF index = 0 THEN pos
    ELSE IF pos <= Len(s) /\ s[pos] = sep THEN pos + 1
    ELSE 0

RECURSIVE ReadIpv4Groups(_, _, _, _)
\* *slot = read_number(..)?: the group r is stored, or the address is None
ReadIpv4Slot(s, i, groups, r) ==
    IF ~r.ok THEN Fail
    ELSE ReadIpv4Groups(s, r.pos, i + 1, Append(groups, r.val))

\* Parser::read_ipv4_addr: four decimal groups of at most 3 digits, no
\* leading zero, each fitting a u8, separated by '.'
ReadIpv4Groups(s, pos, i, groups) ==
    IF i = 4 THEN [ok |-> TRUE, val |-> groups, pos |-> pos]
    ELSE IF SkipSep(s, pos, ".", i) = 0 THEN Fail
    ELSE ReadIpv4Slot(s, i, groups,
                      ReadNumber(s, SkipSep(s, pos, ".", i), 10, 3, FALSE, U8Range))

\* parse_with: the parser must succeed and consume the whole text
WholeText(s, r) == IF r.ok /\ r.pos = Len(s) + 1 THEN r ELSE Fail

\* Ipv4Addr::from_str
Ipv4Addr_from_str(s) ==
    IF Len(s) > 15 THEN Fail ELSE WholeText(s, ReadIpv4Groups(s, 1, 0, <<>>))

RECURSIVE ReadGroups(_, _, _, _, _)
\* read_groups, a hex group g was tried: stored, or the chunk ends before
\* group i with the separator unread
ReadGroupsHex(s, pos, limit, i, groups, g) ==
    IF ~g.ok
    THEN [n |-> i, ipv4 |-> FALSE, pos |-> pos, groups |-> groups]
    ELSE ReadGroups(s, g.pos, limit, i + 1, Append(groups, g.val))

\* read_groups, an embedded IPv4 address v4 was tried at group i: it ends
\* the chunk as two groups, or a hex group is read at p instead
ReadGroupsV4(s, pos, limit, i, groups, p, v4) ==
    IF v4.ok
    THEN [n |-> i + 2, ipv4 |-> TRUE, pos |-> v4.pos,
          groups |-> groups \o <<v4.val[1] * 256 + v4.val[2],
                                 v4.val[3] * 256 + v4.val[4]>>]
    ELSE ReadGroupsHex(s, pos, limit, i, groups,
                       IF p # 0 THEN ReadNumber(s, p, 16, 4, TRUE, U16Range)
                       ELSE Fail)

\* read_groups of Parser::read_ipv6_addr: up to limit hex groups separated
\* by ':', the last two of which may be an embedded IPv4 address
ReadGroups(s, pos, limit, i, groups) ==
    IF i >= limit
    THEN [n |-> limit, ipv4 |-> FALSE, pos |-> pos, groups |-> groups]
    ELSE ReadGroupsV4(s, pos, limit, i, groups, SkipSep(s, pos, ":", i),
                      IF i < limit - 1 /\ SkipSep(s, pos, ":", i) # 0
                      THEN ReadIpv4Groups(s, SkipSep(s, pos, ":", i), 0, <<>>)
                      ELSE Fail)

\* Parser::read_ipv6_addr after "::": head, a run of zero groups, tail
ReadIpv6Tail(head, tail) ==
    [ok |-> TRUE,
     val |-> head.groups \o [k \in 1..(8 - head.n - tail.n) |-> 0] \o tail.groups,
     pos |-> tail.pos]

\* Parser::read_ipv6_addr after the front part was read
ReadIpv6Head(s, head) ==
    IF head.n = 8 THEN [ok |-> TRUE, val |-> head.groups, pos |-> head.pos]
    ELSE IF head.ipv4 THEN Fail
    ELSE IF ~(head.pos + 1 <= Len(s) /\ s[head.pos] = ":" /\ s[head.pos + 1] = ":")
    THEN Fail
    ELSE ReadIpv6Tail(head, ReadGroups(s, head.pos + 2, 8 - (head.n + 1), 0, <<>>))

\* Parser::read_ipv6_addr
ReadIpv6Addr(s) == ReadIpv6Head(s, ReadGroups(s, 1, 8, 0, <<>>))

\* Ipv6Addr::from_str
Ipv6Addr_from_str(s) == WholeText(s, ReadIpv6Addr(s))

RECURSIVE FmtSubslice(_)
\* fmt_subslice of <Ipv6Addr as Display>::fmt: "{:x}" groups joined by ':'
FmtSubslice(chunk) ==
    IF Len(chunk) = 0 THEN <<>>
    ELSE IF Len(chunk) = 1 THEN FmtRadix(chunk[1], 16)
    ELSE FmtRadix(chunk[1], 16) \o <<":">> \o FmtSubslice(Tail(chunk))

\* <Ipv4Addr as Display>::fmt
Ipv4Addr_fmt(o) ==
    FmtRadix(o[1], 10) \o <<".">> \o FmtRadix(o[2], 10) \o <<".">>
    \o FmtRadix(o[3], 10) \o <<".">> \o FmtRadix(o[4], 10)

NoSpan == [start |-> 1, len |-> 0]

RECURSIVE ZeroSpan(_, _, _, _)
\* a zero segment extends the current span, which becomes the longest only
\* when strictly longer
ZeroSpanGrow(segments, i, cur, longest) ==
    ZeroSpan(segments, i + 1, cur, IF cur.len > longest.len THEN cur ELSE longest)

\* the "find the inner 0 span" loop of <Ipv6Addr as Display>::fmt: the
\* first longest run of zero segments
ZeroSpan(segments, i, current, longest) ==
    IF i > Len(segments) THEN longest
    ELSE IF segments[i] = 0
    THEN ZeroSpanGrow(segments, i,
                      [start |-> IF current.len = 0 THEN i ELSE current.start,
                       len |-> current.len + 1],
                      longest)
    ELSE ZeroSpan(segments, i + 1, NoSpan, longest)

\* Ipv6Addr::to_ipv4_mapped is Some
IsIpv4Mapped(segments) ==
    /\ \A k \in 1..5 : segments[k] = 0
    /\ segments[6] = 65535

\* faulty variant: a single zero segment is compressed too
FmtCompressedAny(segments, zeroes) ==
    IF zeroes.len > 0
    THEN FmtSubslice(SubSeq(segments, 1, zeroes.start - 1))
         \o <<":", ":">>
         \o FmtSubslice(SubSeq(segments, zeroes.start + zeroes.len, 8))
    ELSE FmtSubslice(segments)

\* the address with its zero span compressed to "::" when the span is
\* longer than one segment
FmtCompressed(segments, zeroes) ==
    IF zeroes.len > 1
    THEN FmtSubslice(SubSeq(segments, 1, zeroes.start - 1))
         \o <<":", ":">>
         \o FmtSubslice(SubSeq(segments, zeroes.start + zeroes.len, 8))
    ELSE FmtSubslice(segments)

\* <Ipv6Addr as Display>::fmt with no width or precision
Ipv6Addr_fmt(segments) ==
    IF IsIpv4Mapped(segments)
    THEN <<":", ":", "f", "f", "f", "f", ":">>
         \o Ipv4Addr_fmt(<<segments[7] \div 256, segments[7] % 256,
                           segments[8] \div 256, segments[8] % 256>>)
    ELSE FmtCompressed(segments, ZeroSpan(segments, 1, NoSpan, NoSpan))

RECURSIVE ParseU8LoopWrapping(_, _, _)
\* faulty variant: wrapping instead of checked arithmetic
ParseU8LoopWrapping(s, pos, result) ==
    IF pos > Len(s) THEN [ok |-> TRUE, val |-> result, pos |-> pos]
    ELSE IF ToDigit(s[pos], 10) < 0 THEN Fail
    ELSE ParseU8LoopWrapping(s, pos + 1, (result * 10 + ToDigit(s[pos], 10)) % U8Range)

RECURSIVE ParseU8Loop(_, _, _)
\* the digit loop of u8::from_str_radix(src, 10), with checked arithmetic
ParseU8Loop(s, pos, result) ==
    IF pos > Len(s) THEN [ok |-> TRUE, val |-> result, pos |-> pos]
    ELSE IF ToDigit(s[pos], 10) < 0 THEN Fail
    ELSE IF result * 10 + ToDigit(s[pos], 10) >= U8Range THEN Fail
    ELSE ParseU8Loop(s, pos + 1, result * 10 + ToDigit(s[pos], 10))

\* str::parse::<u8>(): empty text, a lone sign, '-', a non-digit and a value
\* over 255 are all ParseIntError; one leading '+' is skipped
ParseU8(s) ==
    IF Len(s) = 0 THEN Fail
    ELSE IF Len(s) = 1 /\ s[1] \in {"+", "-"} THEN Fail
    ELSE IF s[1] = "+" THEN ParseU8Loop(s, 2, 0)
    ELSE ParseU8Loop(s, 1, 0)

-----------------------------------------------------------------------------
(* The codec: FromStr and Display of V4Prefix and V6Prefix                  *)

NoVal == [ip |-> <<>>, prefix |-> 0]
Ok(v) == [tag |-> "Ok", val |-> v, err |-> None]
Err(e) == [tag |-> "Err", val |-> NoVal, err |-> e]

\* .parse::<u8>()? and Ok(Self { ip, prefix })
WithPrefix(ip, prefix) ==
    IF ~prefix.ok THEN Err("ParseIntError")
    ELSE Ok([ip |-> ip.val, prefix |-> prefix.val])

\* the second half of from_str: the address was parsed, parts.get(1) is
\* the length
WithAddr(parts, ip) ==
    IF ~ip.ok THEN Err("AddrParse")
    ELSE IF Get(parts, 1) = <<>> THEN Err("NoneError")
    ELSE WithPrefix(ip, ParseU8(Get(parts, 1)[1]))

\* <V4Prefix as FromStr>::from_str after the split
V4FromParts(parts) ==
    IF Get(parts, 0) = <<>> THEN Err("NoneError")
    ELSE WithAddr(parts, Ipv4Addr_from_str(Get(parts, 0)[1]))

\* <V4Prefix as FromStr>::from_str
V4Prefix_from_str(s) == V4FromParts(Split(s))

\* <V6Prefix as FromStr>::from_str after the split
V6FromParts(parts) ==
    IF Get(parts, 0) = <<>> THEN Err("NoneError")
    ELSE WithAddr(parts, Ipv6Addr_from_str(Get(parts, 0)[1]))

\* <V6Prefix as FromStr>::from_str
V6Prefix_from_str(s) == V6FromParts(Split(s))

\* <V4Prefix as Display>::fmt
V4Prefix_fmt(x) ==
    FmtRadix(x.ip[1], 10) \o <<".">> \o FmtRadix(x.ip[2], 10) \o <<".">>
    \o FmtRadix(x.ip[3], 10) \o <<".">> \o FmtRadix(x.ip[4], 10)
    \o <<"/">> \o FmtRadix(x.prefix, 10)

\* faulty variant: the length is written with "{:x}"
V6Prefix_fmt_hexlen(x) == Ipv6Addr_fmt(x.ip) \o <<"/">> \o FmtRadix(x.prefix, 16)

\* <V6Prefix as Display>::fmt
V6Prefix_fmt(x) == Ipv6Addr_fmt(x.ip) \o <<"/">> \o FmtRadix(x.prefix, 10)

-----------------------------------------------------------------------------
(* Codec pipeline: from_str(input), then Display, then from_str again (the  *)
(* Serialize / Deserialize impls write and read exactly this text)          *)

MaxParts == 3

OctetSample == {0, 10, 255}

\* well-formed IPv4 address texts
Good4Texts ==
    {Ipv4Addr_fmt(o) : o \in [1..4 -> OctetSample]}
    \cup { <<"1", "9", "2", ".", "1", "6", "8", ".", "1", ".", "0">> }

\* malformed ones: empty, three groups, a group over 255, a leading zero,
\* a letter
Bad4Texts ==
    { <<>>,
      <<"1", "0", ".", "0", ".", "0">>,
      <<"1", "0", ".", "0", ".", "0", ".", "2", "5", "6">>,
      <<"1", "0", ".", "0", ".", "0", ".", "0", "1">>,
      <<"1", "0", ".", "0", ".", "0", ".", "x">> }

Addr4Texts == Good4Texts \cup Bad4Texts

Seg6Sample ==
    [1..8 -> {0, 65535}]
    \cup { <<9728, 7960, 0, 0, 0, 0, 0, 0>>,
           <<1, 0, 0, 2571, 0, 0, 0, 1>>,
           <<1, 0, 0, 2571, 0, 0, 171, 1>>,
           <<0, 0, 0, 0, 0, 0, 2560, 1>>,
           <<8193, 3512, 1, 2, 3, 4, 5, 6>> }

\* well-formed IPv6 address texts: compressed, full, upper case, with an
\* embedded IPv4 address, with leading zeros
Good6Texts ==
    {Ipv6Addr_fmt(g) : g \in Seg6Sample}
    \cup {FmtSubslice(g) : g \in Seg6Sample}
    \cup { <<"2", "6", "0", "0", ":", "1", "F", "1", "8", ":", ":">>,
           <<"6", "4", ":", "f", "f", "9", "b", ":", ":",
             "1", "0", ".", "0", ".", "0", ".", "2", "5", "5">>,
           <<"0", "0", "0", "1", ":", ":", "0", "0">> }

\* malformed ones
Bad6Texts ==
    { <<>>,
      <<":", ":", ":">>,
      <<"1", ":", "2", ":", "3">>,
      <<"1", ":", ":", "2", ":", ":", "3">>,
      <<"1", "2", "3", "4", "5", ":", ":">>,
      <<":", ":", "g">>,
      <<"1", ".", "2", ".", "3", ".", "4", ":", ":">> }

Addr6Texts == Good6Texts \cup Bad6Texts

LenTexts ==
    { <<"0">>, <<"8">>, <<"2", "4">>, <<"9", "9">>, <<"2", "5", "5">>,
      <<"2", "5", "6">>, <<"3", "0", "0">>, <<"a", "b", "c">>, <<"-", "1">>,
      <<>>, <<"+", "5">>, <<"0", "0", "7">>, <<"1", "a">> }

ExtraTexts == { <<"9">> }

\* the parts that follow the address part: none, a length, or a length and
\* further parts, up to MaxParts parts in all
Tails ==
    { <<>> }
    \cup { <<l>> \o e : l \in LenTexts,
                       e \in UNION {[1..n -> ExtraTexts] : n \in 0..(MaxParts - 2)} }

RECURSIVE JoinSlash(_)
JoinSlash(parts) ==
    IF Len(parts) = 1 THEN parts[1]
    ELSE parts[1] \o <<"/">> \o JoinSlash(Tail(parts))

Inputs(addrs) == {JoinSlash(<<a>> \o t) : a \in addrs, t \in Tails}

\* Result<_, BlockError> of prefixes() and block(); RNone before the call
ROk(v) == [tag |-> "Ok", val |-> v, err |-> None]
RErr(e) == [tag |-> "Err", val |-> <<>>, err |-> e]
RNone == [tag |-> "None", val |-> <<>>, err |-> None]

NoResult == [tag |-> "None", val |-> NoVal, err |-> None]

InitCodec ==
    /\ family \in {"v4", "v6"}
    /\ input \in (IF family = "v4" THEN Inputs(Addr4Texts) ELSE Inputs(Addr6Texts))
    /\ parsed = NoResult
    /\ text = <<>>
    /\ reparsed = NoResult
    /\ cpc = "input"
    \* no document and no Blocker exist
    /\ provider = "aws" /\ prefixes = <<>> /\ counts = <<>> /\ it = 0
    /\ outvec = <<>> /\ resolved = <<>> /\ ret = RNone /\ rpc = "idle"
    /\ target_os = "linux" /\ ips = <<>> /\ bi = 0 /\ issued = <<>>
    /\ status = "none" /\ rules = <<>> /\ bret = RNone /\ bpc = "idle"

V4FromStr ==
    /\ cpc = "input" /\ family = "v4"
    /\ parsed' = V4Prefix_from_str(input)
    /\ cpc' = "parsed"
    /\ UNCHANGED <<family, input, text, reparsed>>
    /\ UNCHANGED <<rangeVars, blockVars>>

V6FromStr ==
    /\ cpc = "input" /\ family = "v6"
    /\ parsed' = V6Prefix_from_str(input)
    /\ cpc' = "parsed"
    /\ UNCHANGED <<family, input, text, reparsed>>
    /\ UNCHANGED <<rangeVars, blockVars>>

\* V4Prefix::serialize: format!("{}", self)
V4Serialize ==
    /\ cpc = "parsed" /\ family = "v4" /\ parsed.tag = "Ok"
    /\ text' = V4Prefix_fmt(parsed.val)
    /\ cpc' = "shown"
    /\ UNCHANGED <<family, input, parsed, reparsed>>
    /\ UNCHANGED <<rangeVars, blockVars>>

\* V6Prefix::serialize: format!("{}", self)
V6Serialize ==
    /\ cpc = "parsed" /\ family = "v6" /\ parsed.tag = "Ok"
    /\ text' = V6Prefix_fmt(parsed.val)
    /\ cpc' = "shown"
    /\ UNCHANGED <<family, input, parsed, reparsed>>
    /\ UNCHANGED <<rangeVars, blockVars>>

\* V4Visitor::visit_str on the serialized text
V4VisitStr ==
    /\ cpc = "shown" /\ family = "v4"
    /\ reparsed' = V4Prefix_from_str(text)
    /\ cpc' = "reparsed"
    /\ UNCHANGED <<family, input, parsed, text>>
    /\ UNCHANGED <<rangeVars, blockVars>>

\* V6Visitor::visit_str on the serialized text
V6VisitStr ==
    /\ cpc = "shown" /\ family = "v6"
    /\ reparsed' = V6Prefix_from_str(text)
    /\ cpc' = "reparsed"
    /\ UNCHANGED <<family, input, parsed, text>>
    /\ UNCHANGED <<rangeVars, blockVars>>

-----------------------------------------------------------------------------
(* Provider documents and the Range trait                                   *)

MaxEntries == 3
MaxCalls == 2

P4a == [ip |-> <<10, 0, 0, 0>>, prefix |-> 8]
P4b == [ip |-> <<192, 168, 1, 0>>, prefix |-> 24]
P6a == [ip |-> <<9728, 7960, 0, 0, 0, 0, 0, 0>>, prefix |-> 33]

\* IpPrefix::V4 / IpPrefix::V6
IpV4(p) == [fam |-> "V4", p |-> p]
IpV6(p) == [fam |-> "V6", p |-> p]

\* struct AmazonIp; an Option is <<>> (None) or <<x>> (Some(x))
AmazonIps ==
    [ip_prefix : {<<>>, <<P4a>>}, ipv6_prefix : {<<>>, <<P6a>>},
     region : {"us-east-1"}, service : {"AMAZON", "EC2"},
     network_border_group : {"us-east-1"}]
    \cup
    [ip_prefix : {<<P4b>>}, ipv6_prefix : {<<>>, <<P6a>>},
     region : {"eu-west-1"}, service : {"S3"},
     network_border_group : {"eu-west-1"}]

\* struct GoogleIp
GoogleIps ==
    [ipv4Prefix : {<<>>, <<P4a>>}, ipv6Prefix : {<<>>, <<P6a>>},
     service : {<<>>, <<"Google Cloud">>}, scope : {<<"us-west1">>}]
    \cup
    [ipv4Prefix : {<<P4b>>}, ipv6Prefix : {<<>>, <<P6a>>},
     service : {<<"Google Cloud">>}, scope : {<<>>}]

\* AmazonIp::try_to_prefix
AmazonIp_try_to_prefix(e) ==
    IF e.ip_prefix # <<>> THEN ROk(IpV4(e.ip_prefix[1]))
    ELSE IF e.ipv6_prefix # <<>> THEN ROk(IpV6(e.ipv6_prefix[1]))
    ELSE RErr("MissingPrefix")

\* faulty variant: the v6 field is looked at first
GoogleIp_try_v6_first(e) ==
    IF e.ipv6Prefix # <<>> THEN ROk(IpV6(e.ipv6Prefix[1]))
    ELSE IF e.ipv4Prefix # <<>> THEN ROk(IpV4(e.ipv4Prefix[1]))
    ELSE RErr("MissingPrefix")

\* GoogleIp::try_to_prefix
GoogleIp_try_to_prefix(e) ==
    IF e.ipv4Prefix # <<>> THEN ROk(IpV4(e.ipv4Prefix[1]))
    ELSE IF e.ipv6Prefix # <<>> THEN ROk(IpV6(e.ipv6Prefix[1]))
    ELSE RErr("MissingPrefix")

\* faulty variant: the new element is put in front
PushFront(vec, x) == <<x>> \o vec

\* Vec::push
Push(vec, x) == Append(vec, x)

\* faulty variant: only the entries with an IPv4 prefix are counted
AWSRange_count_v4(entries) ==
    Cardinality({i \in 1..Len(entries) : entries[i].ip_prefix # <<>>})

\* AWSRange::prefix_count
AWSRange_prefix_count(entries) == Len(entries)

\* GoogleRange::prefix_count
GoogleRange_prefix_count(entries) == Len(entries)

\* a deserialized document, before any call on it
InitRange ==
    /\ provider \in {"aws", "google"}
    /\ prefixes \in UNION {[1..n -> IF provider = "aws" THEN AmazonIps ELSE GoogleIps]
                           : n \in 0..MaxEntries}
    /\ counts = <<>>
    /\ it = 0
    /\ outvec = <<>>
    /\ resolved = <<>>
    /\ ret = RNone
    /\ rpc = "start"
    \* nothing is being parsed and no Blocker exists
    /\ family = "v4" /\ input = <<>> /\ parsed = NoResult /\ text = <<>>
    /\ reparsed = NoResult /\ cpc = "idle"
    /\ target_os = "linux" /\ ips = <<>> /\ bi = 0 /\ issued = <<>>
    /\ status = "none" /\ rules = <<>> /\ bret = RNone /\ bpc = "idle"

\* prefix_count(&self) on the AWS document
AwsPrefixCount ==
    /\ rpc = "start" /\ provider = "aws" /\ Len(counts) < MaxCalls
    /\ counts' = Append(counts, AWSRange_prefix_count(prefixes))
    /\ UNCHANGED <<provider, prefixes, it, outvec, resolved, ret, rpc>>
    /\ UNCHANGED <<codecVars, blockVars>>

\* prefix_count(&self) on the Google document
GooglePrefixCount ==
    /\ rpc = "start" /\ provider = "google" /\ Len(counts) < MaxCalls
    /\ counts' = Append(counts, GoogleRange_prefix_count(prefixes))
    /\ UNCHANGED <<provider, prefixes, it, outvec, resolved, ret, rpc>>
    /\ UNCHANGED <<codecVars, blockVars>>

\* prefixes(self): Vec::with_capacity and into_iter; the document is moved
PrefixesCall ==
    /\ rpc = "start"
    /\ outvec' = <<>>
    /\ it' = 0
    /\ rpc' = "loop"
    /\ UNCHANGED <<provider, prefixes, counts, resolved, ret>>
    /\ UNCHANGED <<codecVars, blockVars>>

\* faulty variant: a failing entry is skipped and the loop goes on
PrefixesIterSkip(r) ==
    /\ resolved' = Append(resolved, it + 1)
    /\ it' = it + 1
    /\ outvec' = IF r.tag = "Ok" THEN Push(outvec, r.val) ELSE outvec
    /\ UNCHANGED <<ret, rpc>>
    /\ UNCHANGED <<provider, prefixes, counts>>
    /\ UNCHANGED <<codecVars, blockVars>>

\* one iteration of the for loop, r being p.try_to_prefix():
\* outvec.push(r?), or the error is returned and outvec is dropped
PrefixesIter(r) ==
    /\ resolved' = Append(resolved, it + 1)
    /\ it' = it + 1
    /\ IF r.tag = "Ok"
       THEN /\ outvec' = Push(outvec, r.val)
            /\ UNCHANGED <<ret, rpc>>
       ELSE /\ outvec' = <<>>
            /\ ret' = RErr(r.err)
            /\ rpc' = "done"
    /\ UNCHANGED <<provider, prefixes, counts>>
    /\ UNCHANGED <<codecVars, blockVars>>

\* AWSRange::prefixes, the loop body
AwsPrefixesIter ==
    /\ provider = "aws" /\ rpc = "loop" /\ it < Len(prefixes)
    /\ PrefixesIter(AmazonIp_try_to_prefix(prefixes[it + 1]))

\* GoogleRange::prefixes, the loop body
GooglePrefixesIter ==
    /\ provider = "google" /\ rpc = "loop" /\ it < Len(prefixes)
    /\ PrefixesIter(GoogleIp_try_to_prefix(prefixes[it + 1]))

\* the loop is exhausted: Ok(outvec)
PrefixesReturn ==
    /\ rpc = "loop" /\ it = Len(prefixes)
    /\ ret' = ROk(outvec)
    /\ outvec' = <<>>
    /\ rpc' = "done"
    /\ UNCHANGED <<provider, prefixes, counts, it, resolved>>
    /\ UNCHANGED <<codecVars, blockVars>>

-----------------------------------------------------------------------------
(* Blocker::block                                                           *)

MaxIps == 3

IpSample == {IpV4(P4a), IpV4(P4b), IpV6(P6a)}

\* <IpPrefix as Display>::fmt
IpPrefix_fmt(x) == IF x.fam = "V4" THEN V4Prefix_fmt(x.p) ELSE V6Prefix_fmt(x.p)

IsUnix(os) == os \in {"linux", "macos"}

\* Blocker::new(ips, save), on a build for any target
InitBlocker ==
    /\ target_os \in {"linux", "macos", "windows", "other"}
    /\ ips \in UNION {[1..n -> IpSample] : n \in 0..MaxIps}
    /\ bi = 0
    /\ issued = <<>>
    /\ status = "none"
    /\ rules = <<>>
    /\ bret = RNone
    /\ bpc = "loop"
    \* nothing is being parsed and no document exists
    /\ family = "v4" /\ input = <<>> /\ parsed = NoResult /\ text = <<>>
    /\ reparsed = NoResult /\ cpc = "idle"
    /\ provider = "aws" /\ prefixes = <<>> /\ counts = <<>> /\ it = 0
    /\ outvec = <<>> /\ resolved = <<>> /\ ret = RNone /\ rpc = "idle"

\* Command::new(..).args(..).output(): the child is spawned
BlockSpawn ==
    /\ bpc = "loop" /\ bi < Len(ips) /\ target_os # "other"
    /\ issued' = Append(issued,
                        [prog |-> IF IsUnix(target_os) THEN "iptables" ELSE "netsh",
                         ip |-> IpPrefix_fmt(ips[bi + 1])])
    /\ bpc' = "await"
    /\ UNCHANGED <<target_os, ips, bi, status, rules, bret>>
    /\ UNCHANGED <<codecVars, rangeVars>>

\* .output().await? when the program cannot be run: io::Error
BlockSpawnFails ==
    /\ bpc = "loop" /\ bi < Len(ips) /\ target_os # "other"
    /\ bret' = RErr("IOError")
    /\ bpc' = "done"
    /\ UNCHANGED <<target_os, ips, bi, issued, status, rules>>
    /\ UNCHANGED <<codecVars, rangeVars>>

\* the child exits with status 0: the rule is in place, next prefix
BlockCommandSucceeds ==
    /\ bpc = "await"
    /\ status' = "success"
    /\ rules' = Append(rules, ips[bi + 1])
    /\ bi' = bi + 1
    /\ bpc' = "loop"
    /\ UNCHANGED <<target_os, ips, issued, bret>>
    /\ UNCHANGED <<codecVars, rangeVars>>

\* the child exits with a nonzero code; its captured output is valid UTF-8
\* or not
BlockCommandExits ==
    /\ bpc = "await"
    /\ status' = "exit"
    /\ \E utf8 \in BOOLEAN :
          bret' = IF utf8 THEN RErr("CommandFailed") ELSE RErr("Utf8Error")
    /\ bpc' = "done"
    /\ UNCHANGED <<target_os, ips, bi, issued, rules>>
    /\ UNCHANGED <<codecVars, rangeVars>>

\* the child is killed by a signal (Unix): status.code() is None and
\* unwrap() panics
BlockCommandKilled ==
    /\ bpc = "await" /\ IsUnix(target_os)
    /\ status' = "signal"
    /\ bpc' = "panicked"
    /\ UNCHANGED <<target_os, ips, bi, issued, rules, bret>>
    /\ UNCHANGED <<codecVars, rangeVars>>

\* neither cfg! branch is compiled in: the loop body is empty
BlockNoCommand ==
    /\ bpc = "loop" /\ bi < Len(ips) /\ target_os = "other"
    /\ bi' = bi + 1
    /\ UNCHANGED <<target_os, ips, issued, status, rules, bret, bpc>>
    /\ UNCHANGED <<codecVars, rangeVars>>

\* the loop is exhausted: Ok(())
BlockReturn ==
    /\ bpc = "loop" /\ bi = Len(ips)
    /\ bret' = ROk(<<>>)
    /\ bpc' = "done"
    /\ UNCHANGED <<target_os, ips, bi, issued, status, rules>>
    /\ UNCHANGED <<codecVars, rangeVars>>

-----------------------------------------------------------------------------
(* Specifications                                                           *)

NextCodec ==
    \/ V4FromStr \/ V6FromStr
    \/ V4Serialize \/ V6Serialize
    \/ V4VisitStr \/ V6VisitStr

SpecCodec == InitCodec /\ [][NextCodec]_vars

NextRange ==
    \/ AwsPrefixCount \/ GooglePrefixCount
    \/ PrefixesCall
    \/ AwsPrefixesIter \/ GooglePrefixesIter
    \/ PrefixesReturn

SpecRange == InitRange /\ [][NextRange]_vars

NextBlocker ==
    \/ BlockSpawn \/ BlockSpawnFails
    \/ BlockCommandSucceeds \/ BlockCommandKilled \/ BlockCommandExits
    \/ BlockNoCommand
    \/ BlockReturn

SpecBlocker == InitBlocker /\ [][NextBlocker]_vars

-----------------------------------------------------------------------------
(* Properties of the Range implementations (checked under SpecRange)        *)

\* the two optional prefix fields of raw entry i of the document
EntryV4(i) == IF provider = "aws" THEN prefixes[i].ip_prefix ELSE prefixes[i].ipv4Prefix
EntryV6(i) == IF provider = "aws" THEN prefixes[i].ipv6_prefix ELSE prefixes[i].ipv6Prefix

HasNeither(i) == EntryV4(i) = <<>> /\ EntryV6(i) = <<>>
HasBoth(i) == EntryV4(i) # <<>> /\ EntryV6(i) # <<>>

\* the entries that cannot be resolved, and the first of them
Unresolvable == {i \in 1..Len(prefixes) : HasNeither(i)}
FirstUnresolvable == CHOOSE i \in Unresolvable : \A j \in Unresolvable : i <= j

\* the unified prefix entry i stands for: its v4 field when present, else
\* its v6 field
UnifiedOf(i) ==
    IF EntryV4(i) # <<>> THEN [fam |-> "V4", p |-> EntryV4(i)[1]]
    ELSE [fam |-> "V6", p |-> EntryV6(i)[1]]

\* C1: when prefixes() succeeds, the returned sequence has exactly
\* prefix_count() elements and its i-th element is the unified prefix of the
\* i-th raw entry: one output per entry, in the entry order.
C1_OnePrefixPerEntryInOrder ==
    (rpc = "done" /\ ret.tag = "Ok") =>
        /\ Len(ret.val) = Len(prefixes)
        /\ \A k \in 1..Len(counts) : Len(ret.val) = counts[k]
        /\ \A i \in 1..Len(prefixes) : ret.val[i] = UnifiedOf(i)

C1_Witness ==
    /\ rpc = "done" /\ ret.tag = "Ok" /\ Len(counts) > 0
    /\ Len(prefixes) = MaxEntries
    /\ ret.val[1].fam = "V6" /\ ret.val[2].fam = "V4" /\ ret.val[1] # ret.val[3]

\* C2: prefixes() is fail-fast: when some entry cannot be resolved the call
\* returns only the MissingPrefix error, carrying no prefix of any other
\* entry, and no entry after the first failing one is ever resolved.
C2_FailFast ==
    Unresolvable # {} =>
        /\ \A k \in 1..Len(resolved) : resolved[k] <= FirstUnresolvable
        /\ rpc = "done" =>
              /\ ret.tag = "Err" /\ ret.err = "MissingPrefix" /\ ret.val = <<>>
              /\ resolved = [k \in 1..FirstUnresolvable |-> k]

C2_Witness ==
    /\ rpc = "done" /\ ret.tag = "Err"
    /\ Len(prefixes) = 3 /\ FirstUnresolvable = 2 /\ ~HasNeither(3)

\* C3: normalization fails for every raw entry that does not have exactly
\* one of its two prefix fields: an entry with neither field and an entry
\* with both fields both make prefixes() return an error.
C3_ExactlyOneOrError ==
    (rpc = "done" /\ \E i \in 1..Len(prefixes) : HasNeither(i) \/ HasBoth(i))
        => ret.tag = "Err"

\* what holds instead: prefixes() fails exactly when some entry has neither
\* field; an entry with both fields does not fail, it resolves to its V4
\* prefix and its v6 field is dropped.
FailsOnlyOnNeither ==
    rpc = "done" =>
        /\ ret.tag = "Err" <=> Unresolvable # {}
        /\ ret.tag = "Ok" =>
              \A i \in 1..Len(prefixes) :
                  HasBoth(i) => ret.val[i] = [fam |-> "V4", p |-> EntryV4(i)[1]]

BothFieldsAccepted ==
    /\ rpc = "done" /\ ret.tag = "Ok" /\ provider = "aws"
    /\ \E i \in 1..Len(prefixes) : HasBoth(i)

\* C4: per-entry resolution in both providers: v4 present gives V4 of that
\* value, else v6 present gives V6 of that value, else MissingPrefix; the
\* metadata fields never influence the result.
C4_PerEntryResolution ==
    /\ \A i \in 1..Len(outvec) :
          /\ EntryV4(i) # <<>> => outvec[i] = [fam |-> "V4", p |-> EntryV4(i)[1]]
          /\ EntryV4(i) = <<>> =>
                /\ EntryV6(i) # <<>>
                /\ outvec[i] = [fam |-> "V6", p |-> EntryV6(i)[1]]
    /\ \A i, j \in 1..Len(outvec) :
          (EntryV4(i) = EntryV4(j) /\ EntryV6(i) = EntryV6(j)) => outvec[i] = outvec[j]
    /\ (rpc = "done" /\ ret.tag = "Err") =>
          /\ ret.err = "MissingPrefix"
          /\ HasNeither(resolved[Len(resolved)])
    /\ (rpc = "loop" /\ Len(resolved) > 0) => ~HasNeither(resolved[Len(resolved)])

C4_Witness ==
    /\ rpc = "loop" /\ provider = "google" /\ Len(outvec) = 3
    /\ HasBoth(1) /\ EntryV4(2) = <<>>
    /\ EntryV4(3) = EntryV4(1) /\ EntryV6(3) = EntryV6(1)
    /\ prefixes[3] # prefixes[1]

RECURSIVE ResultFrom(_, _)
\* what prefixes() owes its caller for the entries from i on, acc being the
\* prefixes of the entries before i
ResultFrom(i, acc) ==
    IF i > Len(prefixes) THEN [tag |-> "Ok", val |-> acc, err |-> None]
    ELSE IF HasNeither(i) THEN [tag |-> "Err", val |-> <<>>, err |-> "MissingPrefix"]
    ELSE ResultFrom(i + 1, acc \o <<UnifiedOf(i)>>)

\* C9: prefix_count() returns the number of raw entries for every document,
\* also one whose later prefixes() call fails, and calling it any number of
\* times changes neither its own result nor the result of prefixes().
C9_PrefixCountIsPure ==
    /\ \A k \in 1..Len(counts) : counts[k] = Len(prefixes)
    /\ rpc = "done" => ret = ResultFrom(1, <<>>)

C9_Witness ==
    /\ rpc = "done" /\ ret.tag = "Err" /\ Len(counts) = MaxCalls
    /\ Len(prefixes) = 3 /\ provider = "aws"

-----------------------------------------------------------------------------
(* Properties of the codec (checked under SpecCodec)                        *)

\* the input seen as text: where its '/' are, the part before the first
\* one, and the part between the first and the second one (or the end)
SlashAt == {i \in 1..Len(input) : input[i] = "/"}
FirstSlash == CHOOSE i \in SlashAt : \A j \in SlashAt : i <= j
AddrPart == IF SlashAt = {} THEN input ELSE SubSeq(input, 1, FirstSlash - 1)
LenPartEnd ==
    IF Cardinality(SlashAt) < 2 THEN Len(input)
    ELSE (CHOOSE i \in SlashAt \ {FirstSlash} :
              \A j \in SlashAt \ {FirstSlash} : i <= j) - 1
LenPart == IF SlashAt = {} THEN <<>> ELSE SubSeq(input, FirstSlash + 1, LenPartEnd)

GoodAddr == AddrPart \in (IF family = "v4" THEN Good4Texts ELSE Good6Texts)

DecChars == {"0", "1", "2", "3", "4", "5", "6", "7", "8", "9"}
IsDecimal(t) == Len(t) > 0 /\ \A i \in 1..Len(t) : t[i] \in DecChars
NonNumeric(t) == Len(t) = 0 \/ \E i \in 1..Len(t) : t[i] \notin DecChars \cup {"+"}

RECURSIVE DecValue(_)
\* the number a decimal text denotes, in unbounded integers
DecValue(t) ==
    IF Len(t) = 0 THEN 0
    ELSE 10 * DecValue(SubSeq(t, 1, Len(t) - 1))
         + (CHOOSE d \in 0..9 : Digits[d + 1] = t[Len(t)])

\* C5: round trip: for every value x produced by a successful parse,
\* parsing the text produced by formatting x succeeds and yields a value
\* equal to x in every octet / segment and in the length.
C5_RoundTrip ==
    cpc = "reparsed" =>
        /\ reparsed.tag = "Ok"
        /\ Len(reparsed.val.ip) = Len(parsed.val.ip)
        /\ \A k \in 1..Len(parsed.val.ip) : reparsed.val.ip[k] = parsed.val.ip[k]
        /\ reparsed.val.prefix = parsed.val.prefix

C5_Witness ==
    /\ cpc = "reparsed" /\ family = "v6"
    /\ parsed.val.ip = <<1, 0, 0, 2571, 0, 0, 0, 1>>
    /\ parsed.val.prefix = 255
    /\ reparsed.val.prefix = 255

\* C6: parsing succeeds only if the input splits on '/' into
\* exactly two non-empty parts, and a well-formed address with no '/' after
\* it is reported as NoneError.
C6_ExactlyTwoParts ==
    cpc # "input" =>
        /\ parsed.tag = "Ok" =>
              Cardinality(SlashAt) = 1 /\ AddrPart # <<>> /\ LenPart # <<>>
        /\ (SlashAt = {} /\ GoodAddr) => (parsed.tag = "Err" /\ parsed.err = "NoneError")

\* C7: a length part that is a decimal in 0..255 is accepted and stored
\* unchanged, with no check against the family maximum; a length part that
\* is non-numeric, negative or greater than 255 fails with ParseIntError and
\* is never wrapped into the 8-bit range.
C7_LengthIsPlainU8 ==
    (cpc # "input" /\ GoodAddr /\ SlashAt # {}) =>
        /\ (IsDecimal(LenPart) /\ DecValue(LenPart) <= 255) =>
              /\ parsed.tag = "Ok"
              /\ parsed.val.prefix = DecValue(LenPart)
        /\ (NonNumeric(LenPart) \/ (IsDecimal(LenPart) /\ DecValue(LenPart) > 255)) =>
              /\ parsed.tag = "Err"
              /\ parsed.err = "ParseIntError"

C7_Witness ==
    /\ cpc = "parsed" /\ family = "v4"
    /\ AddrPart = <<"1", "0", ".", "0", ".", "0", ".", "0">>
    /\ LenPart = <<"9", "9">>
    /\ parsed.tag = "Ok" /\ parsed.val.prefix = 99

RECURSIVE ColonForm(_)
\* the segments in lower-case hex without leading zeros, joined by ':'
ColonForm(segs) ==
    IF Len(segs) = 0 THEN <<>>
    ELSE IF Len(segs) = 1 THEN FmtRadix(segs[1], 16)
    ELSE ColonForm(SubSeq(segs, 1, Len(segs) - 1)) \o <<":">>
         \o FmtRadix(segs[Len(segs)], 16)

\* C8, as stated: the address is always rendered in full 8-segment colon
\* form, never with '::', followed by '/' and the decimal length.
C8_AlwaysFullForm ==
    (family = "v6" /\ cpc \in {"shown", "reparsed"}) =>
        text = ColonForm(parsed.val.ip) \o <<"/">> \o FmtRadix(parsed.val.prefix, 10)

\* zero runs of an address, declaratively
ZeroRun(ip, a, n) == a + n - 1 <= Len(ip) /\ \A k \in a..(a + n - 1) : ip[k] = 0
LongestRun(ip) ==
    CHOOSE n \in 0..Len(ip) :
        /\ \E a \in 1..Len(ip) : ZeroRun(ip, a, n)
        /\ \A m \in (n + 1)..Len(ip) : \A a \in 1..Len(ip) : ~ZeroRun(ip, a, m)
FirstLongest(ip) ==
    CHOOSE a \in 1..Len(ip) :
        /\ ZeroRun(ip, a, LongestRun(ip))
        /\ \A b \in 1..(a - 1) : ~ZeroRun(ip, b, LongestRun(ip))

\* the text of Ipv6Addr's Display: "::ffff:a.b.c.d" for an IPv4-mapped
\* address; else the full form when no two consecutive segments are zero;
\* else the first longest run of zero segments replaced by "::"
CanonicalAddr(ip) ==
    IF (\A k \in 1..5 : ip[k] = 0) /\ ip[6] = 65535
    THEN <<":", ":", "f", "f", "f", "f", ":">>
         \o FmtRadix(ip[7] \div 256, 10) \o <<".">> \o FmtRadix(ip[7] % 256, 10)
         \o <<".">>
         \o FmtRadix(ip[8] \div 256, 10) \o <<".">> \o FmtRadix(ip[8] % 256, 10)
    ELSE IF LongestRun(ip) < 2 THEN ColonForm(ip)
    ELSE ColonForm(SubSeq(ip, 1, FirstLongest(ip) - 1))
         \o <<":", ":">>
         \o ColonForm(SubSeq(ip, FirstLongest(ip) + LongestRun(ip), Len(ip)))

HasDoubleColon(t) == \E i \in 1..(Len(t) - 1) : t[i] = ":" /\ t[i + 1] = ":"

\* C8, amended: the address is rendered in full 8-segment colon form only
\* when it has no run of two or more zero segments; otherwise its first
\* longest run of zero segments is compressed to '::' (an IPv4-mapped
\* address is rendered as ::ffff:a.b.c.d); the output is that address
\* followed by '/' and the decimal length.
C8_CanonicalForm ==
    (family = "v6" /\ cpc \in {"shown", "reparsed"}) =>
        /\ text = CanonicalAddr(parsed.val.ip) \o <<"/">>
                  \o FmtRadix(parsed.val.prefix, 10)
        /\ HasDoubleColon(text) <=> LongestRun(parsed.val.ip) >= 2

C8_Witness ==
    /\ family = "v6" /\ cpc = "shown"
    /\ parsed.val.ip = <<9728, 7960, 0, 0, 0, 0, 0, 0>>
    /\ text = <<"2", "6", "0", "0", ":", "1", "f", "1", "8", ":", ":", "/", "2", "4">>

-----------------------------------------------------------------------------
(* Properties of Blocker::block (checked under SpecBlocker)                 *)

\* the commands issued so far are those of the first prefixes, in order
IssuedInOrder ==
    /\ Len(issued) <= Len(ips)
    /\ \A k \in 1..Len(issued) :
          issued[k].ip = (IF ips[k].fam = "V4" THEN V4Prefix_fmt(ips[k].p)
                          ELSE V6Prefix_fmt(ips[k].p))

\* C10: block() issues one add-rule command per stored prefix, in order,
\* each after the previous one succeeded; at the first command that ends
\* unsuccessfully it returns CommandFailed, issues no further command and
\* removes no rule already added; it returns Ok only if a command was
\* issued and succeeded for every prefix.
C10_BlockStopsWithCommandFailed ==
    /\ IssuedInOrder
    /\ Len(rules) = (IF bpc = "await" \/ status \in {"exit", "signal"}
                     THEN Len(issued) - 1 ELSE Len(issued))
    /\ \A k \in 1..Len(rules) : rules[k] = ips[k]
    /\ (bpc # "await" /\ status \in {"exit", "signal"}) =>
          /\ bpc = "done"
          /\ bret.tag = "Err" /\ bret.err = "CommandFailed"
    /\ bret.tag = "Ok" => (Len(issued) = Len(ips) /\ rules = ips)

====
